---- MODULE Spec2Model ----
(***************************************************************************)
(* A model of flarestats' analytics core (src-tauri/src/commands.rs and    *)
(* the managed state of src-tauri/src/lib.rs): the settings file, the      *)
(* aggregator run (fetch_analytics_inner), the background refresh loop     *)
(* behind the shared RefreshTask handle, and the pure helpers              *)
(* parse_interval_ms, get_time_range and fill_series_gaps.                 *)
(*                                                                         *)
(* Text formats.  A string produced by "%Y-%m-%dT%H:%M:%SZ" is the tuple   *)
(* <<Y, m, d, H, M, S>> of its fields, one produced by "%Y-%m-%d" is       *)
(* <<Y, m, d>>; both orders are the strings' lexicographic orders.  A      *)
(* NaiveDateTime is its number of seconds since 1970-01-01T00:00:00, a     *)
(* NaiveDate its number of days since 1970-01-01.                          *)
(***************************************************************************)
EXTENDS Integers, Sequences, FiniteSets, TLC

VARIABLES
    file,       \* settings.json: absent, or the JSON document it holds
    handle,     \* RefreshTask.0: NoTask or the id of the stored JoinHandle's task
    lock,       \* the Mutex of RefreshTask: 0 or the id of the Start call holding it
    calls,      \* the start_background_refresh invocations, by call id
    loops,      \* the spawned refresh tasks in spawn order (index = task id)
    runs,       \* the fetch_analytics_inner run of each owner (Cmd or a task id)
    cycle,      \* the cycle a refresh task finished in the step just taken
    emitted,    \* the events the step just taken handed to app.emit
    fn          \* the pure-function harness: the call in progress and its result

vars == <<file, handle, lock, calls, loops, runs, cycle, emitted, fn>>


-----------------------------------------------------------------------------
(* chrono: the proleptic Gregorian calendar behind format and parse_from_str *)

IsLeap(y) == (y % 4 = 0 /\ y % 100 /= 0) \/ y % 400 = 0

DaysInMonth(y, m) ==
    IF m = 2 THEN (IF IsLeap(y) THEN 29 ELSE 28)
    ELSE IF m \in {4, 6, 9, 11} THEN 30 ELSE 31

\* days since 1970-01-01 of the civil date y-m-d
DaysFromCivil(y, m, d) ==
    LET yy  == IF m <= 2 THEN y - 1 ELSE y
        era == yy \div 400
        yoe == yy - era * 400
        mp  == IF m > 2 THEN m - 3 ELSE m + 9
        doy == (153 * mp + 2) \div 5 + d - 1
        doe == yoe * 365 + yoe \div 4 - yoe \div 100 + doy
    IN  era * 146097 + doe - 719468

\* the civil date <<y, m, d>> of a day number
CivilFromDays(z0) ==
    LET z   == z0 + 719468
        era == z \div 146097
        doe == z - era * 146097
        yoe == (doe - doe \div 1460 + doe \div 36524 - doe \div 146096) \div 365
        doy == doe - (365 * yoe + yoe \div 4 - yoe \div 100)
        mp  == (5 * doy + 2) \div 153
        d   == doy - (153 * mp + 2) \div 5 + 1
        m   == IF mp < 10 THEN mp + 3 ELSE mp - 9
        y   == yoe + era * 400 + (IF m <= 2 THEN 1 ELSE 0)
    IN  <<y, m, d>>

SecsPerDay == 86400
SecsPerHour == 3600

\* t.format("%Y-%m-%dT%H:%M:%SZ")
FormatDateTime(t) ==
    LET c == CivilFromDays(t \div SecsPerDay)
        s == t % SecsPerDay
    IN  <<c[1], c[2], c[3], s \div SecsPerHour, (s \div 60) % 60, s % 60>>

\* d.format("%Y-%m-%d")
FormatDate(d) == CivilFromDays(d)

\* t.format("%Y-%m-%dT00:00:00Z"): the date fields, the time of day literal
FormatMidnight(t) ==
    LET c == CivilFromDays(t \div SecsPerDay)
    IN  <<c[1], c[2], c[3], 0, 0, 0>>

ValidDate(s) ==
    /\ Len(s) = 3
    /\ s[2] \in 1..12
    /\ s[3] \in 1..DaysInMonth(s[1], s[2])

\* NaiveDateTime::parse_from_str(s, "%Y-%m-%dT%H:%M:%SZ").unwrap_or_default()
ParseDateTime(s) ==
    IF /\ Len(s) = 6
       /\ ValidDate(SubSeq(s, 1, 3))
       /\ s[4] \in 0..23 /\ s[5] \in 0..59 /\ s[6] \in 0..59
    THEN DaysFromCivil(s[1], s[2], s[3]) * SecsPerDay
             + s[4] * SecsPerHour + s[5] * 60 + s[6]
    ELSE 0

\* &s[..10]: the "YYYY-MM-DD" prefix of a timestamp string
Prefix10(s) == SubSeq(s, 1, 3)

\* NaiveDate::parse_from_str(s, "%Y-%m-%d").unwrap_or_default()
ParseDate(s) ==
    IF ValidDate(s) THEN DaysFromCivil(s[1], s[2], s[3]) ELSE 0

\* HashMap::get(key).copied().unwrap_or((0, 0))
Lookup(data, key) == IF key \in DOMAIN data THEN data[key] ELSE <<0, 0>>

SeriesPoint(key, vp) == [timestamp |-> key, visits |-> vp[1], page_views |-> vp[2]]

-----------------------------------------------------------------------------
(* fill_series_gaps *)

RECURSIVE HourlyLoop(_, _, _, _)
HourlyLoop(current, end_dt, data, series) ==
    IF current <= end_dt
    THEN LET key == FormatDateTime(current)
         IN  HourlyLoop(current + SecsPerHour, end_dt, data,
                        Append(series, SeriesPoint(key, Lookup(data, key))))
    ELSE series

RECURSIVE DailyLoop(_, _, _, _)
DailyLoop(current, end_d, data, series) ==
    IF current <= end_d
    THEN LET key == FormatDate(current)
         IN  DailyLoop(current + 1, end_d, data,
                       Append(series, SeriesPoint(key, Lookup(data, key))))
    ELSE series

fill_series_gaps_exclusive(start, end, ts_field, data) ==
    IF ts_field = "datetimeHour"
    THEN HourlyLoop(ParseDateTime(start), ParseDateTime(end) - 1, data, <<>>)
    ELSE DailyLoop(ParseDate(Prefix10(start)), ParseDate(Prefix10(end)) - 1, data, <<>>)

fill_series_gaps(start, end, ts_field, data) ==
    IF ts_field = "datetimeHour"
    THEN HourlyLoop(ParseDateTime(start), ParseDateTime(end), data, <<>>)
    ELSE DailyLoop(ParseDate(Prefix10(start)), ParseDate(Prefix10(end)), data, <<>>)

-----------------------------------------------------------------------------
(* get_time_range: now is <<seconds since the epoch, nanoseconds>> *)

WithMinute0(t) == [t EXCEPT ![1] = @ - ((@ \div 60) % 60) * 60]
WithSecond0(t) == [t EXCEPT ![1] = @ - (@ % 60)]
WithNanosecond0(t) == [t EXCEPT ![2] = 0]
MinusSecs(t, n) == [t EXCEPT ![1] = @ - n]

get_time_range_whole_span(period, now) ==
    IF period = "24h"
    THEN LET start == WithNanosecond0(WithSecond0(WithMinute0(
                          MinusSecs(now, 24 * SecsPerHour))))
         IN  <<FormatDateTime(start[1]), FormatDateTime(now[1]), "datetimeHour">>
    ELSE IF period = "7d"
    THEN <<FormatMidnight(MinusSecs(now, 7 * SecsPerDay)[1]),
           FormatDateTime(now[1]), "date">>
    ELSE <<FormatMidnight(MinusSecs(now, 30 * SecsPerDay)[1]),
           FormatDateTime(now[1]), "date">>

get_time_range(period, now) ==
    IF period = "24h"
    THEN LET start == WithNanosecond0(WithSecond0(WithMinute0(
                          MinusSecs(now, 24 * SecsPerHour))))
         IN  <<FormatDateTime(start[1]), FormatDateTime(now[1]), "datetimeHour">>
    ELSE IF period = "7d"
    THEN <<FormatMidnight(MinusSecs(now, 6 * SecsPerDay)[1]),
           FormatDateTime(now[1]), "date">>
    ELSE <<FormatMidnight(MinusSecs(now, 29 * SecsPerDay)[1]),
           FormatDateTime(now[1]), "date">>

-----------------------------------------------------------------------------
(* parse_interval_ms *)

parse_interval_ms_default_5m(interval) ==
    CASE interval = "5m"  -> 300000
      [] interval = "15m" -> 900000
      [] interval = "60m" -> 3600000
      [] OTHER            -> 300000

parse_interval_ms(interval) ==
    CASE interval = "5m"  -> 300000
      [] interval = "15m" -> 900000
      [] interval = "60m" -> 3600000
      [] OTHER            -> 900000

-----------------------------------------------------------------------------
(* Results: Result<T, String> *)

Ok(v) == [ok |-> TRUE, val |-> v, err |-> ""]
Err(e) == [ok |-> FALSE, val |-> <<>>, err |-> e]

-----------------------------------------------------------------------------
(* Settings and settings.json.  The file is absent or holds a JSON document,
   a record of the fields it spells out. *)

Absent == [kind |-> "absent"]
Json(doc) == [kind |-> "json", doc |-> doc]

default_true == TRUE
default_refresh_interval == "15m"

\* Settings::default()
DefaultSettings ==
    [token |-> "", account_id |-> "", period |-> "", exclude_bots |-> TRUE,
     refresh_interval |-> "15m"]

\* serde_json::from_str::<Settings>: token, account_id and period are required,
\* exclude_bots and refresh_interval fall back to their serde defaults
FromStr(doc) ==
    IF {"token", "account_id", "period"} \subseteq DOMAIN doc
    THEN Ok([token |-> doc.token, account_id |-> doc.account_id,
             period |-> doc.period,
             exclude_bots |-> IF "exclude_bots" \in DOMAIN doc
                              THEN doc.exclude_bots ELSE default_true,
             refresh_interval |-> IF "refresh_interval" \in DOMAIN doc
                                  THEN doc.refresh_interval
                                  ELSE default_refresh_interval])
    ELSE Err("missing field")

get_settings(f) ==
    IF f.kind = "json"
    THEN FromStr(f.doc)
    ELSE Ok([DefaultSettings EXCEPT !.period = "24h"])

\* the Settings values the presentation layer saves
SaveInputs ==
    { [token |-> "tok", account_id |-> "acc", period |-> "7d",
       exclude_bots |-> FALSE, refresh_interval |-> "5m"],
      [token |-> "", account_id |-> "acc", period |-> "30d",
       exclude_bots |-> TRUE, refresh_interval |-> "60m"],
      [token |-> "tok", account_id |-> "", period |-> "",
       exclude_bots |-> TRUE, refresh_interval |-> ""] }

\* documents that reach the file from outside the program
ExternalDocs ==
    { [token |-> "tok", account_id |-> "acc", period |-> "24h"],
      [token |-> "tok", account_id |-> "acc"] }

FileStates ==
    {Absent} \cup {Json(d) : d \in SaveInputs} \cup {Json(d) : d \in ExternalDocs}

\* the part of them the scheduler is run against: no file (the defaults,
\* without credentials), complete credentials, an undecodable document
LoopSaveInputs == {s \in SaveInputs : s.token /= "" /\ s.account_id /= ""}

LoopFileStates ==
    {Absent} \cup {Json(d) : d \in LoopSaveInputs} \cup {Json(d) : d \in ExternalDocs}

-----------------------------------------------------------------------------
(* Bounds *)

MaxStarts == 2      \* start_background_refresh invocations
MaxSites == 3       \* sites a listing returns to the fetch_analytics command
MaxLoopSites == 1   \* sites a listing returns to a refresh task

-----------------------------------------------------------------------------
(* The remote API's answers.  An optional JSON field is a sequence of length
   0 or 1; a number that is no u64 is -1. *)

Some(v) == <<v>>
Missing == <<>>

\* as_u64().unwrap_or(0)
AsU64OrZero(v) == IF v >= 0 THEN v ELSE 0

SiteEntry(i) == [zone_name |-> Some(i), site_tag |-> Some(100 + i)]

ListOk(entries) ==
    [transport_ok |-> TRUE, status |-> 200, json_ok |-> TRUE,
     result |-> Some(entries)]

ListResponses(n) ==
    { [ListOk(<<>>) EXCEPT !.transport_ok = FALSE],
      [ListOk(<<>>) EXCEPT !.status = 403],
      [ListOk(<<>>) EXCEPT !.json_ok = FALSE],
      [ListOk(<<>>) EXCEPT !.result = Missing],
      ListOk(<<SiteEntry(1), [SiteEntry(2) EXCEPT !.site_tag = Missing]>>) }
    \cup { ListOk([i \in 1..k |-> SiteEntry(i)]) : k \in 0..n }

\* fetch_sites, from the response on
fetch_sites(resp) ==
    IF ~resp.transport_ok THEN Err("transport error")
    ELSE IF resp.status \notin 200..299 THEN Err("API error")
    ELSE IF ~resp.json_ok THEN Err("json error")
    ELSE IF resp.result = Missing THEN Err("Invalid response: missing result array")
    ELSE LET arr == resp.result[1]
             keep == SelectSeq(arr, LAMBDA e : e.zone_name /= Missing
                                               /\ e.site_tag /= Missing)
         IN  Ok([i \in 1..Len(keep) |->
                    [name |-> keep[i].zone_name[1], tag |-> keep[i].site_tag[1]]])

MetricsOk(totals, series) ==
    [transport_ok |-> TRUE, status |-> 200, json_ok |-> TRUE, errors |-> 0,
     totals |-> totals, series |-> series]

Point(ts, v, pv) == [ts |-> ts, visits |-> v, count |-> pv]

MetricsResponses ==
    { [MetricsOk(<<>>, <<>>) EXCEPT !.status = 500],
      [MetricsOk(<<>>, <<>>) EXCEPT !.errors = 1],
      MetricsOk(<<[count |-> 9, visits |-> 7]>>, <<>>),
      MetricsOk(<<[count |-> 5, visits |-> 2]>>,
                <<Point(Some(<<2024, 3, 1>>), 4, 6),
                  Point(Some(<<2024, 3, 1, 0, 0, 0>>), 1, -1),
                  Point(Missing, 8, 8)>>),
      MetricsOk(<<>>, <<>>) }

\* the part of them a refresh task's requests are answered with
LoopMetricsResponses ==
    {r \in MetricsResponses : r.errors = 0 /\ (r.status = 200 => r.totals /= <<>>)}

\* the HashMap collected from the series points that carry a ts; a later point
\* replaces an earlier one of the same key
RECURSIVE CollectRaw(_, _)
CollectRaw(points, map) ==
    IF points = <<>> THEN map
    ELSE LET p == Head(points)
         IN  IF p.ts = Missing THEN CollectRaw(Tail(points), map)
             ELSE LET k == p.ts[1]
                      v == <<AsU64OrZero(p.visits), AsU64OrZero(p.count)>>
                  IN  CollectRaw(Tail(points),
                        [x \in DOMAIN map \cup {k} |-> IF x = k THEN v ELSE map[x]])

EmptyMap == [x \in {} |-> <<0, 0>>]

fetch_site_analytics_sparse(name, range, resp) ==
    IF ~resp.transport_ok THEN Err("transport error")
    ELSE IF resp.status \notin 200..299 THEN Err("GraphQL error")
    ELSE IF ~resp.json_ok THEN Err("json error")
    ELSE IF resp.errors > 0 THEN Err("GraphQL errors")
    ELSE LET page_views == IF resp.totals = <<>> THEN 0
                           ELSE AsU64OrZero(resp.totals[1].count)
             visits     == IF resp.totals = <<>> THEN 0
                           ELSE AsU64OrZero(resp.totals[1].visits)
             points     == SelectSeq(resp.series, LAMBDA pt : pt.ts /= Missing)
         IN  Ok([name |-> name, visits |-> visits, page_views |-> page_views,
                 series |-> [i \in 1..Len(points) |->
                                SeriesPoint(points[i].ts[1],
                                            <<AsU64OrZero(points[i].visits),
                                              AsU64OrZero(points[i].count)>>)]])

\* fetch_site_analytics, from the response on; range is what get_time_range
\* returned when the request was built
fetch_site_analytics(name, range, resp) ==
    IF ~resp.transport_ok THEN Err("transport error")
    ELSE IF resp.status \notin 200..299 THEN Err("GraphQL error")
    ELSE IF ~resp.json_ok THEN Err("json error")
    ELSE IF resp.errors > 0 THEN Err("GraphQL errors")
    ELSE LET page_views == IF resp.totals = <<>> THEN 0
                           ELSE AsU64OrZero(resp.totals[1].count)
             visits     == IF resp.totals = <<>> THEN 0
                           ELSE AsU64OrZero(resp.totals[1].visits)
             raw_series == CollectRaw(resp.series, EmptyMap)
         IN  Ok([name |-> name, visits |-> visits, page_views |-> page_views,
                 series |-> fill_series_gaps(range[1], range[2], range[3],
                                             raw_series)])

-----------------------------------------------------------------------------
(* sites_data.sort_by(|a, b| b.visits.cmp(&a.visits)): a stable sort *)

CmpLessAscending(a, b) == a.visits < b.visits

\* the comparator says Less: a goes before b
CmpLess(a, b) == b.visits < a.visits

RECURSIVE InsertStable(_, _)
InsertStable(sorted, x) ==
    IF sorted /= <<>> /\ CmpLess(x, sorted[Len(sorted)])
    THEN Append(InsertStable(SubSeq(sorted, 1, Len(sorted) - 1), x),
                sorted[Len(sorted)])
    ELSE Append(sorted, x)

RECURSIVE SortBy(_, _)
SortBy(todo, sorted) ==
    IF todo = <<>> THEN sorted
    ELSE SortBy(Tail(todo), InsertStable(sorted, Head(todo)))

-----------------------------------------------------------------------------
(* fetch_analytics_inner: one run per owner.  Owner 0 is the fetch_analytics
   command, owner l > 0 the refresh task l. *)

NoTask == 0
Cmd == 0
Owners == 0..MaxStarts

Pending == [done |-> FALSE, res |-> Err("pending")]
Done(r) == [done |-> TRUE, res |-> r]

IdleRun ==
    [pc |-> "idle", loaded |-> FALSE, settings |-> DefaultSettings,
     list |-> Ok(<<>>), sites |-> <<>>, ranges |-> <<>>, results |-> <<>>,
     last_done |-> 0, net |-> [list |-> 0, fetch |-> 0], result |-> Ok(<<>>)]

\* what Utc::now() may return to the requests of one run
RunInstants == {<<DaysFromCivil(2024, 3, 1) * SecsPerDay + 59 * 60 + 59, 0>>}

MissingCredentialsBoth(s) == s.token = "" /\ s.account_id = ""

MissingCredentials(s) == s.token = "" \/ s.account_id = ""

\* the run up to its first await: settings, credentials, the listing request
BeginRun(f) ==
    LET s == get_settings(f)
    IN  IF ~s.ok
        THEN [IdleRun EXCEPT !.pc = "returned", !.result = Err(s.err)]
        ELSE IF MissingCredentials(s.val)
        THEN [IdleRun EXCEPT !.pc = "returned", !.loaded = TRUE,
                             !.settings = s.val,
                             !.result = Err("Please configure API token and Account ID in settings")]
        ELSE [IdleRun EXCEPT !.pc = "listing", !.loaded = TRUE,
                             !.settings = s.val, !.net.list = 1]

ListFailureReworded(r) == Err("Failed to list sites")

\* fetch_sites(..).await? on an Err
ListFailure(r) == Err(r.err)

\* results folded into sites_data: the Ok ones, in the order of the futures
CollectOk(results) ==
    LET oks == SelectSeq(results, LAMBDA x : x.res.ok)
    IN  [i \in 1..Len(oks) |-> oks[i].res.val]

AggregateFailFast(results) ==
    LET errs == SelectSeq(results, LAMBDA x : ~x.res.ok)
    IN  IF errs /= <<>> THEN Err(errs[1].res.err)
        ELSE Ok(SortBy(CollectOk(results), <<>>))

\* the run from join_all's results to its return
Aggregate(results) == Ok(SortBy(CollectOk(results), <<>>))

\* the run from the listing response to its next await (or its return);
\* nows[i] is the instant the i-th site's request reads
OnListReply(run, resp, nows) ==
    LET r == fetch_sites(resp)
    IN  IF ~r.ok
        THEN [run EXCEPT !.pc = "returned", !.list = r, !.result = ListFailure(r)]
        ELSE IF r.val = <<>>
        THEN [run EXCEPT !.pc = "returned", !.list = r, !.result = Aggregate(<<>>)]
        ELSE [run EXCEPT !.pc = "fetching", !.list = r, !.sites = r.val,
                         !.ranges = [i \in 1..Len(r.val) |->
                                        get_time_range(run.settings.period, nows[i])],
                         !.results = [i \in 1..Len(r.val) |-> Pending],
                         !.net.fetch = Len(r.val)]

\* the run when the i-th site's response arrives; join_all is ready with the last
OnMetricsReply(run, i, resp) ==
    LET r == fetch_site_analytics(run.sites[i].name, run.ranges[i], resp)
        results == [run.results EXCEPT ![i] = Done(r)]
    IN  IF \A j \in 1..Len(results) : results[j].done
        THEN [run EXCEPT !.pc = "returned", !.results = results, !.last_done = i,
                         !.result = Aggregate(results)]
        ELSE [run EXCEPT !.results = results, !.last_done = i]

\* the instants successive Utc::now() calls may return
NowSeqs(n, instants) ==
    {ns \in [1..n -> instants] : \A i \in 1..(n - 1) : ns[i][1] <= ns[i + 1][1]}

-----------------------------------------------------------------------------
(* The refresh task, the Start calls and the pure-function harness *)

Task(interval_ms) == [interval_ms |-> interval_ms, pc |-> "sleep"]

\* a task that was dropped: nothing of its state is left
Cancelled == [interval_ms |-> 0, pc |-> "cancelled"]

IdleCall == [pc |-> "idle", interval_ms |-> 0, task |-> NoTask]

FnIdle == [op |-> "none", args |-> <<>>, ret |-> <<>>, pc |-> "idle"]

InitMain ==
    /\ handle = NoTask
    /\ lock = 0
    /\ calls = [c \in 1..MaxStarts |-> IdleCall]
    /\ loops = <<>>
    /\ runs = [o \in Owners |-> IdleRun]
    /\ cycle = <<>>
    /\ emitted = <<>>

Init ==
    /\ file \in LoopFileStates
    /\ InitMain
    /\ fn = FnIdle

InitRun ==
    /\ file \in FileStates
    /\ InitMain
    /\ fn = FnIdle

\* a step that ends no cycle and publishes nothing
Quiet == cycle' = <<>> /\ emitted' = <<>>

-----------------------------------------------------------------------------
(* Settings file *)

\* save_settings: serde_json::to_string_pretty writes every field
SaveSettings(s) ==
    /\ file' = Json(s)
    /\ Quiet
    /\ UNCHANGED <<handle, lock, calls, loops, runs, fn>>

\* the file is edited or removed from outside the program
ExternalWrite(f) ==
    /\ file /= f
    /\ file' = f
    /\ Quiet
    /\ UNCHANGED <<handle, lock, calls, loops, runs, fn>>

-----------------------------------------------------------------------------
(* The loop of the refresh task.  A poll of the task runs from one await to
   the next: when the run returns, the match and the next sleep belong to the
   same poll. *)

Event(data) == [name |-> "analytics-refreshed", payload |-> data]

EmitAlways(result) == <<Event(result.val)>>

\* match fetch_analytics_inner(..).await { Ok(data) => emit, Err(e) => eprintln }
Emit(result) == IF result.ok THEN <<Event(result.val)>> ELSE <<>>

AfterCycleStopOnError(result) == IF result.ok THEN "sleep" ELSE "exited"

\* where the task is after the match: back at the sleep of loop { .. }
AfterCycle(result) == "sleep"

\* the poll of owner o that leaves its run as `run` ends at the next await
Poll(o, run) ==
    IF o /= Cmd /\ run.pc = "returned"
    THEN /\ runs' = [runs EXCEPT ![o] = IdleRun]
         /\ loops' = [loops EXCEPT ![o].pc = AfterCycle(run.result)]
         /\ cycle' = <<[task |-> o, run |-> run]>>
         /\ emitted' = Emit(run.result)
    ELSE /\ runs' = [runs EXCEPT ![o] = run]
         /\ loops' = IF o /= Cmd THEN [loops EXCEPT ![o].pc = "run"] ELSE loops
         /\ Quiet

LoopWakeOnTick(l) ==
    /\ loops[l].pc \in {"sleep", "run"}
    /\ Poll(l, BeginRun(file))
    /\ UNCHANGED <<file, handle, lock, calls, fn>>

\* the sleep elapses and the run begins
LoopWake(l) ==
    /\ loops[l].pc = "sleep"
    /\ Poll(l, BeginRun(file))
    /\ UNCHANGED <<file, handle, lock, calls, fn>>

-----------------------------------------------------------------------------
(* fetch_analytics, the on-demand run, and the responses of the remote API *)

FetchAnalyticsInvoke ==
    /\ runs[Cmd].pc = "idle"
    /\ Poll(Cmd, BeginRun(file))
    /\ UNCHANGED <<file, handle, lock, calls, fn>>

FetchAnalyticsReturn ==
    /\ runs[Cmd].pc = "returned"
    /\ runs' = [runs EXCEPT ![Cmd] = IdleRun]
    /\ Quiet
    /\ UNCHANGED <<file, handle, lock, calls, loops, fn>>

\* the listing response reaches run o
ListReply(o, resp) ==
    /\ runs[o].pc = "listing"
    /\ \E nows \in NowSeqs(Len(fetch_sites(resp).val), RunInstants) :
          Poll(o, OnListReply(runs[o], resp, nows))
    /\ UNCHANGED <<file, handle, lock, calls, fn>>

\* the metrics response of the i-th site reaches run o
MetricsReply(o, i, resp) ==
    /\ runs[o].pc = "fetching"
    /\ i \in 1..Len(runs[o].results)
    /\ ~runs[o].results[i].done
    /\ Poll(o, OnMetricsReply(runs[o], i, resp))
    /\ UNCHANGED <<file, handle, lock, calls, fn>>

-----------------------------------------------------------------------------
(* start_background_refresh *)

LockFreeAlways(l) == TRUE

\* Mutex::lock returns once no other call holds the guard
LockFree(l) == l = 0

\* JoinHandle::abort: the task is dropped at the await it is suspended in
Abort(ls, h) == [ls EXCEPT ![h] = Cancelled]

StartInvokeCancelFirst(c) ==
    /\ calls[c].pc = "idle"
    /\ \A d \in 1..(c - 1) : calls[d].pc /= "idle"
    /\ LET s == get_settings(file)
       IN  IF s.ok
           THEN /\ calls' = [calls EXCEPT ![c] =
                        [@ EXCEPT !.pc = "lock",
                                  !.interval_ms = parse_interval_ms(s.val.refresh_interval)]]
                /\ UNCHANGED <<handle, loops, runs>>
           ELSE /\ LockFree(lock)
                /\ calls' = [calls EXCEPT ![c].pc = "failed"]
                /\ handle' = NoTask
                /\ loops' = IF handle /= NoTask THEN Abort(loops, handle) ELSE loops
                /\ runs' = IF handle /= NoTask THEN [runs EXCEPT ![handle] = IdleRun]
                           ELSE runs
    /\ Quiet
    /\ UNCHANGED <<file, lock, fn>>

\* get_settings(..)? and parse_interval_ms, before the lock is asked for
StartInvoke(c) ==
    /\ calls[c].pc = "idle"
    /\ \A d \in 1..(c - 1) : calls[d].pc /= "idle"
    /\ LET s == get_settings(file)
       IN  calls' = [calls EXCEPT ![c] =
                IF s.ok
                THEN [@ EXCEPT !.pc = "lock",
                               !.interval_ms = parse_interval_ms(s.val.refresh_interval)]
                ELSE [@ EXCEPT !.pc = "failed"]]
    /\ Quiet
    /\ UNCHANGED <<file, handle, lock, loops, runs, fn>>

\* state.0.lock()
StartLock(c) ==
    /\ calls[c].pc = "lock"
    /\ LockFree(lock)
    /\ lock' = c
    /\ calls' = [calls EXCEPT ![c].pc = "take"]
    /\ Quiet
    /\ UNCHANGED <<file, handle, loops, runs, fn>>

\* if let Some(h) = handle.take() { h.abort(); }: the aborted task's run is
\* dropped with it
StartTake(c) ==
    /\ calls[c].pc = "take"
    /\ handle' = NoTask
    /\ loops' = IF handle /= NoTask THEN Abort(loops, handle) ELSE loops
    /\ runs' = IF handle /= NoTask THEN [runs EXCEPT ![handle] = IdleRun] ELSE runs
    /\ calls' = [calls EXCEPT ![c].pc = "spawn"]
    /\ Quiet
    /\ UNCHANGED <<file, lock, fn>>

\* tokio::spawn(async move { loop { .. } })
StartSpawn(c) ==
    /\ calls[c].pc = "spawn"
    /\ loops' = Append(loops, Task(calls[c].interval_ms))
    /\ calls' = [calls EXCEPT ![c] =
            [pc |-> "store", interval_ms |-> 0, task |-> Len(loops) + 1]]
    /\ Quiet
    /\ UNCHANGED <<file, handle, lock, runs, fn>>

\* *handle = Some(task); Ok(()): the guard is dropped on return
StartStore(c) ==
    /\ calls[c].pc = "store"
    /\ handle' = calls[c].task
    /\ lock' = 0
    /\ calls' = [calls EXCEPT ![c] = [IdleCall EXCEPT !.pc = "done"]]
    /\ Quiet
    /\ UNCHANGED <<file, loops, runs, fn>>

-----------------------------------------------------------------------------

\* the scheduler: the settings file, Start calls and the refresh tasks
Next ==
    \/ \E s \in LoopSaveInputs : SaveSettings(s)
    \/ \E f \in LoopFileStates \ {Json(d) : d \in SaveInputs} : ExternalWrite(f)
    \/ \E l \in 1..Len(loops), resp \in ListResponses(MaxLoopSites) : ListReply(l, resp)
    \/ \E l \in 1..Len(loops), i \in 1..MaxLoopSites, resp \in LoopMetricsResponses :
          MetricsReply(l, i, resp)
    \/ \E c \in 1..MaxStarts : StartInvoke(c)
    \/ \E c \in 1..MaxStarts : StartLock(c)
    \/ \E c \in 1..MaxStarts : StartTake(c)
    \/ \E c \in 1..MaxStarts : StartSpawn(c)
    \/ \E c \in 1..MaxStarts : StartStore(c)
    \/ \E l \in 1..Len(loops) : LoopWake(l)

Spec == Init /\ [][Next]_vars

\* the fetch_analytics command: one aggregator run at a time, on demand
NextRun ==
    \/ \E s \in SaveInputs : SaveSettings(s)
    \/ \E f \in FileStates \ {Json(d) : d \in SaveInputs} : ExternalWrite(f)
    \/ FetchAnalyticsInvoke
    \/ FetchAnalyticsReturn
    \/ \E resp \in ListResponses(MaxSites) : ListReply(Cmd, resp)
    \/ \E i \in 1..MaxSites, resp \in MetricsResponses : MetricsReply(Cmd, i, resp)

SpecRun == InitRun /\ [][NextRun]_vars

-----------------------------------------------------------------------------
(* The pure functions, applied to inputs drawn at the start *)

MaxSpanHours == 26  \* hours between the start and the end of an hourly range
MaxSpanDays == 30   \* days between the start and the end of a daily range

\* instants ranges start at: a plain day, the eves of a leap day, of a new
\* year and of a March after a short February, and one off the hour
RangeStarts ==
    { ParseDateTime(<<2024, 1, 15, 0, 0, 0>>), ParseDateTime(<<2024, 2, 28, 22, 0, 0>>),
      ParseDateTime(<<2023, 12, 31, 20, 0, 0>>), ParseDateTime(<<2023, 2, 28, 23, 0, 0>>),
      ParseDateTime(<<2024, 1, 15, 0, 30, 15>>) }

\* seconds an end lies past a whole number of steps
Offsets == {0, 1799, 3599}

\* strings that are no timestamp: a 30th and a 29th of February
Malformed == {<<2024, 2, 30, 0, 0, 0>>, <<2023, 2, 29, 12, 0, 0>>}

RawMaps ==
    { EmptyMap,
      (<<2024, 1, 15, 0, 0, 0>> :> <<10, 20>>) @@ (<<2024, 1, 15, 2, 0, 0>> :> <<30, 40>>),
      (<<2024, 1, 15>> :> <<100, 200>>) @@ (<<2024, 1, 17>> :> <<300, 400>>),
      (<<2024, 2, 29>> :> <<1, 2>>) @@ (<<2024, 2, 29, 0, 0, 0>> :> <<3, 4>>)
        @@ (<<2023, 12, 31, 23, 0, 0>> :> <<5, 6>>) @@ (<<2024, 1, 1>> :> <<7, 8>>)
        @@ (<<2023, 3, 1>> :> <<13, 14>>) @@ (<<2030, 1, 1>> :> <<9, 9>>)
        @@ (<<2024, 1, 15, 1, 30, 15>> :> <<11, 12>>)
        @@ (<<2024, 2, 30>> :> <<15, 16>>) }

FillArgs ==
    { <<FormatDateTime(t), FormatDateTime(t + h * SecsPerHour + o), "datetimeHour", m>> :
        t \in RangeStarts, h \in 0..MaxSpanHours, o \in Offsets, m \in RawMaps }
    \cup
    { <<FormatDateTime(t), FormatDateTime(t + d * SecsPerDay + o), f, m>> :
        t \in RangeStarts, d \in 0..MaxSpanDays, o \in Offsets, m \in RawMaps,
        f \in {"date", "datetimeMinute"} }
    \cup
    { <<FormatDateTime(t), FormatDateTime(t - d * SecsPerHour), f, m>> :
        t \in RangeStarts, d \in 1..25, m \in RawMaps, f \in {"date", "datetimeHour"} }
    \cup
    { <<a, b, f, m>> : a \in Malformed, b \in Malformed \cup {<<1970, 1, 2, 1, 0, 0>>},
                       f \in {"date", "datetimeHour"}, m \in RawMaps }

\* the instants Utc::now() is drawn from: around the turn of an hour, of a
\* day, of February in a leap and in a common year, and of a year
Nows ==
    { <<ParseDateTime(t) + o, n>> :
        t \in { <<2024, 3, 1, 0, 0, 0>>, <<2024, 3, 1, 1, 0, 0>>, <<2024, 1, 1, 0, 0, 0>>,
                <<2023, 3, 1, 0, 0, 0>>, <<2024, 3, 7, 0, 0, 0>>, <<2024, 3, 30, 0, 0, 0>>,
                <<2024, 1, 15, 10, 37, 12>>, <<2025, 1, 1, 0, 0, 0>> },
        o \in {-1, 0, 1, 1800}, n \in {0, 999999999} }

Periods == {"24h", "7d", "30d", "", "1h", "unrecognized"}

IntervalTokens == {"5m", "15m", "60m", "", "unknown", "30m", "5M", "60"}

FnCall(op, args) == [op |-> op, args |-> args, ret |-> <<>>, pc |-> "call"]

InitPure ==
    /\ file = Absent
    /\ InitMain
    /\ \/ \E a \in FillArgs : fn = FnCall("fill_series_gaps", a)
       \/ \E p \in Periods, now \in Nows : fn = FnCall("get_time_range", <<p, now>>)
       \/ \E t \in IntervalTokens : fn = FnCall("parse_interval_ms", <<t>>)

Return(v) == fn' = [fn EXCEPT !.ret = v, !.pc = "done"]

CallFillSeriesGaps ==
    /\ fn.op = "fill_series_gaps" /\ fn.pc = "call"
    /\ Return(fill_series_gaps(fn.args[1], fn.args[2], fn.args[3], fn.args[4]))
    /\ UNCHANGED <<file, handle, lock, calls, loops, runs, cycle, emitted>>

CallGetTimeRange ==
    /\ fn.op = "get_time_range" /\ fn.pc = "call"
    /\ Return(get_time_range(fn.args[1], fn.args[2]))
    /\ UNCHANGED <<file, handle, lock, calls, loops, runs, cycle, emitted>>

CallParseIntervalMs ==
    /\ fn.op = "parse_interval_ms" /\ fn.pc = "call"
    /\ Return(<<parse_interval_ms(fn.args[1])>>)
    /\ UNCHANGED <<file, handle, lock, calls, loops, runs, cycle, emitted>>

NextPure ==
    \/ CallFillSeriesGaps
    \/ CallGetTimeRange
    \/ CallParseIntervalMs

SpecPure == InitPure /\ [][NextPure]_vars

-----------------------------------------------------------------------------
(* One per-site fetch on its own: fetch_site_analytics for every period token
   at every instant of Nows, answered by every response *)

InitFetch ==
    /\ file = Absent
    /\ InitMain
    /\ \E p \in Periods, now \in Nows, resp \in MetricsResponses :
          fn = FnCall("fetch_site_analytics", <<p, now, resp>>)

\* get_time_range(period) at the instant now, the request, its response
CallFetchSiteAnalytics ==
    /\ fn.op = "fetch_site_analytics" /\ fn.pc = "call"
    /\ Return(<<fetch_site_analytics("site", get_time_range(fn.args[1], fn.args[2]),
                                     fn.args[3])>>)
    /\ UNCHANGED <<file, handle, lock, calls, loops, runs, cycle, emitted>>

NextFetch == CallFetchSiteAnalytics

SpecFetch == InitFetch /\ [][NextFetch]_vars

-----------------------------------------------------------------------------
(* Properties of the scheduler (Spec) *)

Live(l) == loops[l].pc /= "cancelled"

NoCallInProgress == \A c \in 1..MaxStarts : calls[c].pc \in {"idle", "done", "failed"}

\* C1: at most one refresh task exists at any time, and once no Start call is
\* in progress the handle holds the task spawned last and every earlier task
\* has been cancelled (the handle is empty only while nothing was ever spawned)
C1_AtMostOneLoop ==
    /\ Cardinality({l \in 1..Len(loops) : Live(l)}) <= 1
    /\ NoCallInProgress =>
          /\ handle = Len(loops)
          /\ \A l \in 1..Len(loops) : Live(l) <=> l = handle

\* two Start calls have returned: the second task runs, the first is cancelled
C1_Witness ==
    /\ \A c \in 1..MaxStarts : calls[c].pc = "done"
    /\ Len(loops) >= 2
    /\ handle = Len(loops)
    /\ loops[handle].pc = "run"
    /\ loops[1].pc = "cancelled"

CycleFailed == cycle /= <<>> /\ ~cycle[1].run.result.ok

\* C2: a task is asleep, in a run or cancelled, never ended otherwise; the
\* task whose cycle just failed is asleep again with its next cycle enabled
C2_FailedCycleKeepsLooping ==
    /\ \A l \in 1..Len(loops) : loops[l].pc \in {"sleep", "run", "cancelled"}
    /\ CycleFailed =>
          /\ loops[cycle[1].task].pc = "sleep"
          /\ ENABLED LoopWake(cycle[1].task)

\* a cycle has just failed on the site listing, and the task sleeps again
C2_Witness ==
    /\ CycleFailed
    /\ ~cycle[1].run.list.ok
    /\ cycle[1].run.result.err = "API error"
    /\ loops[cycle[1].task].pc = "sleep"

\* C3: a step publishes an event exactly when it ends a cycle whose run
\* returned a Snapshot: one "analytics-refreshed" event carrying that Snapshot
C3_EventIffCycleSucceeds ==
    IF cycle /= <<>> /\ cycle[1].run.result.ok
    THEN /\ Len(emitted) = 1
         /\ emitted[1].name = "analytics-refreshed"
         /\ emitted[1].payload = cycle[1].run.result.val
    ELSE emitted = <<>>

\* a cycle has just returned a Snapshot with a site in it, and it was published
C3_Witness ==
    /\ cycle /= <<>>
    /\ cycle[1].run.result.ok
    /\ cycle[1].run.result.val /= <<>>
    /\ emitted /= <<>>

-----------------------------------------------------------------------------
(* Properties of the aggregator run (SpecRun) *)

Returned(o) == runs[o].pc = "returned"

\* C4: a run whose settings lack the token or the account id has returned an
\* error and has sent no request, neither the listing nor a metrics query
C4_FailFastOnMissingCredentials ==
    \A o \in Owners :
        (runs[o].loaded /\ (runs[o].settings.token = "" \/ runs[o].settings.account_id = ""))
        => /\ Returned(o)
           /\ ~runs[o].result.ok
           /\ runs[o].net.list = 0
           /\ runs[o].net.fetch = 0

\* a run with a token and no account id has returned its error
C4_Witness ==
    /\ Returned(Cmd)
    /\ runs[Cmd].loaded
    /\ runs[Cmd].settings.token /= ""
    /\ runs[Cmd].settings.account_id = ""
    /\ ~runs[Cmd].result.ok

OkSites(o) == {i \in 1..Len(runs[o].results) : runs[o].results[i].res.ok}

Listed(o) == Returned(o) /\ runs[o].net.list = 1 /\ runs[o].list.ok

\* C5: a run whose listing succeeded succeeds, whatever its sites' fetches
\* did; its Snapshot has one entry per site whose fetch succeeded and no
\* other, each entry being what that site's fetch returned, under its name
C5_PartialFailureTolerated ==
    \A o \in Owners :
        Listed(o) =>
            /\ runs[o].result.ok
            /\ Len(runs[o].result.val) = Len(runs[o].sites) - Cardinality(
                   {i \in 1..Len(runs[o].results) : ~runs[o].results[i].res.ok})
            /\ \A i \in OkSites(o) :
                  /\ runs[o].results[i].res.val.name = runs[o].sites[i].name
                  /\ Cardinality({p \in 1..Len(runs[o].result.val) :
                         runs[o].result.val[p] = runs[o].results[i].res.val}) = 1
            /\ \A p \in 1..Len(runs[o].result.val) :
                  \E i \in OkSites(o) : runs[o].result.val[p] = runs[o].results[i].res.val

\* of three listed sites exactly one fetch failed, and the run returned two
C5_Witness ==
    /\ Listed(Cmd)
    /\ Len(runs[Cmd].sites) = 3
    /\ Cardinality(OkSites(Cmd)) = 2
    /\ runs[Cmd].result.ok
    /\ Len(runs[Cmd].result.val) = 2

\* C6: a run whose listing failed has failed with the listing's error and
\* has sent no metrics query
C6_ListFailureAbortsRun ==
    \A o \in Owners :
        (Returned(o) /\ runs[o].net.list = 1 /\ ~runs[o].list.ok)
        => /\ ~runs[o].result.ok
           /\ runs[o].result.err = runs[o].list.err
           /\ runs[o].net.fetch = 0
           /\ runs[o].results = <<>>

\* the listing was refused with a non-success status and the run has failed
C6_Witness ==
    /\ Returned(Cmd)
    /\ runs[Cmd].net.list = 1
    /\ runs[Cmd].list.err = "API error"
    /\ ~runs[Cmd].result.ok

\* the place of the site called name in the listing of run o
Place(o, name) == CHOOSE i \in 1..Len(runs[o].sites) : runs[o].sites[i].name = name

\* C7: a returned Snapshot is non-increasing in visits, and entries of equal
\* visits stand in the order of the listing
C7_SortedStable ==
    \A o \in Owners :
        (Returned(o) /\ runs[o].result.ok) =>
            \A p, q \in 1..Len(runs[o].result.val) :
                p < q =>
                    LET a == runs[o].result.val[p]
                        b == runs[o].result.val[q]
                    IN  /\ a.visits >= b.visits
                        /\ a.visits = b.visits => Place(o, a.name) < Place(o, b.name)

\* three entries, the first two tied and ahead of the third, returned by a
\* run whose first site's fetch was the last to complete
C7_Witness ==
    /\ Returned(Cmd)
    /\ runs[Cmd].result.ok
    /\ Len(runs[Cmd].result.val) = 3
    /\ runs[Cmd].result.val[1].visits = runs[Cmd].result.val[2].visits
    /\ runs[Cmd].result.val[2].visits > runs[Cmd].result.val[3].visits
    /\ runs[Cmd].result.val[1].name = runs[Cmd].sites[1].name
    /\ runs[Cmd].last_done = 1

-----------------------------------------------------------------------------
(* Properties of the pure functions (SpecPure) *)

FnDone(op) == fn.op = op /\ fn.pc = "done"

\* a string that "%Y-%m-%dT%H:%M:%SZ" reads back as itself
WellFormed(s) == Len(s) = 6 /\ FormatDateTime(ParseDateTime(s)) = s

\* the order of two strings of one format
StrLess(a, b) ==
    \E i \in 1..Len(a) : a[i] < b[i] /\ \A j \in 1..(i - 1) : a[j] = b[j]

\* the points of ret carry the raw values of their own labels, or zeros
CarriesRaw(ret, data) ==
    \A k \in 1..Len(ret) :
        <<ret[k].visits, ret[k].page_views>> =
            IF ret[k].timestamp \in DOMAIN data THEN data[ret[k].timestamp] ELSE <<0, 0>>

Ascending(ret) ==
    \A k \in 1..(Len(ret) - 1) : StrLess(ret[k].timestamp, ret[k + 1].timestamp)

\* C8: over a range of well-formed instants with start <= end the series has
\* one point for each step from start that does not pass end (hours from the
\* start instant for Hourly, days from the start date to the end date for
\* Daily), labelled by that step, in strictly ascending order, each carrying
\* the raw values found under its label and zeros when there are none
C8_FillCoversRange ==
    (/\ FnDone("fill_series_gaps")
     /\ fn.args[3] \in {"datetimeHour", "date"}
     /\ WellFormed(fn.args[1]) /\ WellFormed(fn.args[2])
     /\ ParseDateTime(fn.args[1]) <= ParseDateTime(fn.args[2]))
    => LET S == ParseDateTime(fn.args[1])
           E == ParseDateTime(fn.args[2])
           hourly == fn.args[3] = "datetimeHour"
           n == IF hourly THEN (E - S) \div SecsPerHour + 1
                ELSE E \div SecsPerDay - S \div SecsPerDay + 1
       IN  /\ Len(fn.ret) = n
           /\ \A k \in 1..n :
                 IF hourly
                 THEN /\ Len(fn.ret[k].timestamp) = 6
                      /\ ParseDateTime(fn.ret[k].timestamp) = S + (k - 1) * SecsPerHour
                 ELSE /\ Len(fn.ret[k].timestamp) = 3
                      /\ ParseDate(fn.ret[k].timestamp) = S \div SecsPerDay + (k - 1)
           /\ Ascending(fn.ret)
           /\ CarriesRaw(fn.ret, fn.args[4])

\* an hourly range of 27 points across the leap day, filled from a mapping
\* that has a value for one of its hours and keys that label none of them
C8_Witness ==
    /\ FnDone("fill_series_gaps")
    /\ fn.args[3] = "datetimeHour"
    /\ fn.args[1] = <<2024, 2, 28, 22, 0, 0>>
    /\ fn.args[2] = <<2024, 3, 1, 0, 29, 59>>
    /\ Len(fn.ret) = 27
    /\ fn.ret[3] = SeriesPoint(<<2024, 2, 29, 0, 0, 0>>, <<3, 4>>)
    /\ fn.ret[4] = SeriesPoint(<<2024, 2, 29, 1, 0, 0>>, <<0, 0>>)
    /\ <<2030, 1, 1>> \in DOMAIN fn.args[4]

\* C9: get_time_range returns a well-formed start and end with end = now (to
\* the second); the field is datetimeHour exactly for "24h", whose start is
\* the top of the hour of now - 24h; "7d" starts at the UTC midnight 6 days
\* before today, every other token at the UTC midnight 29 days before today
C9_TimeRange ==
    FnDone("get_time_range") =>
        LET p == fn.args[1]
            now == fn.args[2][1]
            today == now \div SecsPerDay
            S == ParseDateTime(fn.ret[1])
        IN  /\ WellFormed(fn.ret[1]) /\ WellFormed(fn.ret[2])
            /\ ParseDateTime(fn.ret[2]) = now
            /\ fn.ret[3] = "datetimeHour" <=> p = "24h"
            /\ fn.ret[3] \in {"datetimeHour", "date"}
            /\ p = "24h" =>
                  /\ S % SecsPerHour = 0
                  /\ S <= now - 24 * SecsPerHour
                  /\ now - 24 * SecsPerHour < S + SecsPerHour
            /\ p = "7d" => S = (today - 6) * SecsPerDay
            /\ p \notin {"24h", "7d"} => S = (today - 29) * SecsPerDay

\* an unrecognized token one second before 1 March 2024: from 31 January
C9_Witness ==
    /\ FnDone("get_time_range")
    /\ fn.args[1] = "unrecognized"
    /\ fn.ret = <<<<2024, 1, 31, 0, 0, 0>>, <<2024, 2, 29, 23, 59, 59>>, "date">>

\* C10: "5m" is 300000 ms, "15m" 900000 ms, "60m" 3600000 ms, and every
\* other token, the empty one included, 900000 ms
C10_IntervalLookup ==
    FnDone("parse_interval_ms") =>
        /\ fn.args[1] = "5m" => fn.ret[1] = 300000
        /\ fn.args[1] = "15m" => fn.ret[1] = 900000
        /\ fn.args[1] = "60m" => fn.ret[1] = 3600000
        /\ fn.args[1] \notin {"5m", "15m", "60m"} => fn.ret[1] = 900000

\* the empty token has been looked up
C10_Witness ==
    /\ FnDone("parse_interval_ms")
    /\ fn.args[1] = ""
    /\ fn.ret[1] = 900000

-----------------------------------------------------------------------------
(* Properties of the refresh loop's sequencing (Spec) *)

\* the run task l holds, or has just returned from, after the step
RunAfter(l) ==
    IF cycle' /= <<>> /\ cycle'[1].task = l THEN cycle'[1].run ELSE runs'[l]

\* the step begins a run of task l: the run after it is the one
\* fetch_analytics_inner is at when it first suspends or returns early
Begins(l) ==
    /\ RunAfter(l) = BeginRun(file)
    /\ RunAfter(l) /= runs[l]

\* C11: the cycles of one refresh loop are strictly sequential.  A step begins
\* a run of a task only from a state in which the task is suspended in its
\* sleep of the interval (so the step is the elapse of that sleep) and holds
\* no run in progress; the step that spawns a task begins no run and leaves
\* the task in its first sleep; the interval a task sleeps never changes
C11_SleepBeforeEveryRun ==
    [][/\ \A l \in 1..Len(loops) :
             /\ Begins(l) => /\ loops[l].pc = "sleep"
                             /\ runs[l].pc = "idle"
             /\ loops[l].pc /= "cancelled" /\ loops'[l].pc /= "cancelled"
                    => loops'[l].interval_ms = loops[l].interval_ms
       /\ \A l \in (Len(loops) + 1)..Len(loops') :
             /\ loops'[l].pc = "sleep"
             /\ runs'[l].pc = "idle"
             /\ cycle' = <<>>]_vars

\* the task spawned by the second Start, after its sleep of 5 minutes, is in
\* its run with the per-site request in flight, the first task cancelled
C11_Witness ==
    /\ Len(loops) = 2
    /\ loops[1].pc = "cancelled"
    /\ loops[2] = [interval_ms |-> 300000, pc |-> "run"]
    /\ runs[2].pc = "fetching"

-----------------------------------------------------------------------------
(* Properties of one per-site fetch (SpecFetch) *)

\* C12: the series of a SiteData that fetch_site_analytics returns, filled
\* over the range get_time_range produced for that fetch, has 25 points when
\* the period is "24h", 7 when it is "7d" and 30 for every other token, at
\* whatever instant the fetch is made and whatever series the API returned
C12_SeriesLengthByPeriod ==
    (FnDone("fetch_site_analytics") /\ fn.ret[1].ok) =>
        Len(fn.ret[1].val.series) =
            CASE fn.args[1] = "24h" -> 25
              [] fn.args[1] = "7d"  -> 7
              [] OTHER              -> 30

\* a "24h" fetch made in the last second of the leap day, answered with a
\* series of three points, one of them without a ts: 25 points come back
C12_Witness ==
    /\ FnDone("fetch_site_analytics")
    /\ fn.args[1] = "24h"
    /\ fn.args[2] = <<ParseDateTime(<<2024, 2, 29, 23, 59, 59>>), 999999999>>
    /\ Len(fn.args[3].series) = 3
    /\ fn.ret[1].ok
    /\ Len(fn.ret[1].val.series) = 25
    /\ fn.ret[1].val.series[1].timestamp = <<2024, 2, 28, 23, 0, 0>>

-----------------------------------------------------------------------------
(* Properties of a failed Start (Spec) *)

\* the step in which call c returns the error of get_settings
StartFails(c) == calls[c].pc = "idle" /\ calls'[c].pc = "failed"

SomeStartFailed == \E c \in 1..MaxStarts : calls[c].pc = "failed"

\* C13: the step in which a Start call returns the error of get_settings
\* leaves the handle, the lock, the tasks and their runs as they were and
\* publishes nothing, and the call does nothing afterwards; the task that
\* was active stays so: with a Start failed, a task that has not been
\* cancelled is asleep with its wake-up enabled or in a run awaiting a reply
C13_FailedStartChangesNothing ==
    /\ [][\A c \in 1..MaxStarts :
             /\ StartFails(c) =>
                   /\ handle' = handle
                   /\ lock' = lock
                   /\ loops' = loops
                   /\ runs' = runs
                   /\ emitted' = <<>>
             /\ calls[c].pc = "failed" => calls'[c] = calls[c]]_vars
    /\ [](SomeStartFailed =>
             \A l \in 1..Len(loops) :
                 Live(l) => \/ loops[l].pc = "sleep" /\ ENABLED LoopWake(l)
                            \/ loops[l].pc = "run"
                                  /\ runs[l].pc \in {"listing", "fetching"})

\* the second Start has failed on a settings file that cannot be decoded
\* while the task of the first is in a run: that task is still in the handle
C13_Witness ==
    /\ calls[1].pc = "done"
    /\ calls[2].pc = "failed"
    /\ ~get_settings(file).ok
    /\ Len(loops) = 1
    /\ handle = 1
    /\ loops[1].pc = "run"
    /\ runs[1].pc = "fetching"

====
